---- MODULE Spec2Model ----
(***************************************************************************)
(* Model of the generic entity-access layer (src/src/router/base.py) over  *)
(* the Base entity (src/src/model/base.py).                                *)
(*                                                                         *)
(* A record is a function from column names to optional values: None is    *)
(* the empty set and a present value v is {v}, so that values of           *)
(* different types can be compared with None.                              *)
(*                                                                         *)
(* Requests run concurrently, each on a session of its own.  The handlers  *)
(* are coroutines: each `await` on the session is a point where the        *)
(* request is suspended and other requests run.  An action is one          *)
(* uninterrupted stretch of a handler, from the call or the completion of  *)
(* an awaited statement to the next suspension or the return.              *)
(*                                                                         *)
(* durable is the committed table.  A session sees the committed table as  *)
(* it is when its statement executes, followed by the rows it has inserted *)
(* itself and not yet committed.  A session writes its pending changes to  *)
(* the committed table when the request's caller commits it.               *)
(*                                                                         *)
(* The wall clock never runs backwards; every reading of it may find it    *)
(* advanced.  At most MaxRequests requests are made, two at a time.        *)
(***************************************************************************)
EXTENDS Integers, Sequences, FiniteSets, TLC

MaxId == 2
MaxClock == 1
MaxRows == 2
MaxRequests == 4

None == {}
Some(v) == {v}
Val(o) == CHOOSE v \in o : TRUE

Attrs == {"id", "created_at", "updated_at", "name", "count"}
ClientAttrs == {"name", "count"}
Ids == 1..MaxId
Names == {"", "x"}
Counts == {0, 1}
OptNames == {None} \cup {Some(n) : n \in Names}
OptCounts == {None} \cup {Some(c) : c \in Counts}
NoRow == [a \in Attrs |-> None]
NoKwargs == [a \in {} |-> None]
Sessions == {1, 2}

VARIABLES clock, durable, sess, started
vars == <<clock, durable, sess, started>>

(***************************************************************************)
(* Python truthiness of a column value: None, the empty string and 0 are   *)
(* falsy; a UUID and a datetime are always truthy.                         *)
(***************************************************************************)
Truthy(attr, o) ==
    IF o = None THEN FALSE
    ELSE IF attr = "name" THEN Val(o) # ""
    ELSE IF attr = "count" THEN Val(o) # 0
    ELSE TRUE

\* to_dict() of a partial payload: the attributes that were set on it.
to_dict(data) == [a \in {k \in Attrs : data[k] # None} |-> data[a]]

(***************************************************************************)
(* The session.  new: objects added and not yet inserted; ins: rows        *)
(* inserted in the open transaction; loaded: the state in which the        *)
(* object of the request was loaded; cur: its present state; calls: the    *)
(* session methods called so far.  The remaining fields are the position   *)
(* of the request (pc), its arguments and what it returned.                *)
(***************************************************************************)
NoSession ==
    [pc |-> "idle", op |-> "", id |-> 0, data |-> NoRow, kwargs |-> NoKwargs,
     now |-> 0, new |-> <<>>, ins |-> <<>>, loaded |-> NoRow, cur |-> NoRow,
     err |-> "", ret |-> NoRow, rets |-> <<>>, calls |-> <<>>]

UsedIds(rows) == {Val(rows[i].id) : i \in {j \in 1..Len(rows) : rows[j].id # None}}

Holders(rows, id) == {i \in 1..Len(rows) : rows[i].id = Some(id)}

\* What a SELECT of session t reads: the committed rows, then its own.
View(tbl, t) == tbl \o t.ins

\* Column defaults, evaluated in column order for the values not supplied.
ColumnDefaults(data, newid, t1, t2) ==
    [data EXCEPT !.id = IF @ = None THEN Some(newid) ELSE @,
                 !.created_at = IF @ = None THEN Some(t1) ELSE @,
                 !.updated_at = IF @ = None THEN Some(t2) ELSE @]

session_add(t, data) ==
    [t EXCEPT !.new = Append(@, data), !.calls = Append(@, "add")]

\* flush() up to its suspension: the parameters of the INSERT are built.
session_flush(t, newid, t1, t2) ==
    [t EXCEPT !.new = [i \in 1..Len(@) |-> ColumnDefaults(@[i], newid, t1, t2)],
              !.calls = Append(@, "flush")]

\* An INSERT without effect.
session_insert_lost(t) == [t EXCEPT !.new = <<>>]

\* The INSERT of the flush takes effect in the session's transaction.
session_insert(t) == [t EXCEPT !.ins = @ \o t.new, !.new = <<>>]

\* select(table).where(c[a] == stmt[a] for each a): the rows that match.
session_execute(rows, stmt) ==
    SelectSeq(rows, LAMBDA r : \A a \in DOMAIN stmt : r[a] = stmt[a])

\* result.scalars(): one object per row, through the session's identity map.
\* A row whose primary key an earlier row of the result had yields that
\* row's object, which is not populated again.
scalars(hits) ==
    [i \in 1..Len(hits) |->
        hits[CHOOSE j \in 1..i :
                /\ hits[j].id = hits[i].id
                /\ \A k \in 1..(j - 1) : hits[k].id # hits[i].id]]

\* A lookup that takes the first row of the table.
read_item_by_id_first(rows, id) ==
    IF Len(rows) = 0 THEN [err |-> "NoResultFound", ret |-> NoRow]
    ELSE [err |-> "", ret |-> rows[1]]

\* scalars().one(): exactly one row, or an error.
read_item_by_id(rows, id) ==
    LET hits == session_execute(rows, [a \in {"id"} |-> Some(id)])
    IN  IF Len(hits) = 0 THEN [err |-> "NoResultFound", ret |-> NoRow]
        ELSE IF Len(hits) > 1 THEN [err |-> "MultipleResultsFound", ret |-> NoRow]
        ELSE [err |-> "", ret |-> scalars(hits)[1]]

\* A filter that keeps the None arguments.
Filtered_all(kwargs) == DOMAIN kwargs

\* The keyword arguments that become WHERE conditions.
Filtered(kwargs) == {a \in DOMAIN kwargs : kwargs[a] # None}

\* scalars().all() of the filtered select.
read_items_by_attrs(rows, kwargs) ==
    scalars(session_execute(rows, [a \in Filtered(kwargs) |-> kwargs[a]]))

\* A payload filter that keeps everything that is not None.
PartialUpdate_not_none(data, now) ==
    LET d == to_dict(data)
        kept == {k \in DOMAIN d : d[k] # None}
    IN  [a \in kept \cup {"updated_at"} |->
            IF a = "updated_at" THEN Some(now) ELSE d[a]]

\* The truthy entries of the payload, then updated_at overwritten.
PartialUpdate(data, now) ==
    LET d == to_dict(data)
        kept == {k \in DOMAIN d : Truthy(k, d[k])}
    IN  [a \in kept \cup {"updated_at"} |->
            IF a = "updated_at" THEN Some(now) ELSE d[a]]

\* setattr(result, attr, value) for every entry.
Patch(row, data_) ==
    [a \in Attrs |-> IF a \in DOMAIN data_ THEN data_[a] ELSE row[a]]

(***************************************************************************)
(* commit(): the pending UPDATE of the loaded object (the changed columns, *)
(* addressed by the id it was loaded with) and the inserted rows reach the *)
(* committed table, or nothing does.                                       *)
(***************************************************************************)
session_commit(tbl, t) ==
    LET changed == {a \in Attrs : t.cur[a] # t.loaded[a]}
        targets == IF t.loaded.id = None THEN {}
                   ELSE Holders(tbl, Val(t.loaded.id))
        i == CHOOSE j \in targets : TRUE
        stale == changed # {} /\ targets = {}
        clash == /\ changed # {} /\ targets # {} /\ "id" \in changed
                 /\ \E j \in 1..Len(tbl) : j # i /\ tbl[j].id = t.cur.id
        tbl1 == IF changed = {} \/ stale \/ clash THEN tbl
                ELSE [tbl EXCEPT ![i] = [a \in Attrs |->
                          IF a \in changed THEN t.cur[a] ELSE tbl[i][a]]]
        dup == \E k \in 1..Len(t.ins) : Val(t.ins[k].id) \in UsedIds(tbl1)
    IN  IF stale \/ clash \/ dup THEN tbl ELSE tbl1 \o t.ins

session_rollback(tbl, t) == tbl

(***************************************************************************)
(* The handlers, one definition per uninterrupted stretch.  Each gives the *)
(* session and the committed table as it leaves them.                      *)
(***************************************************************************)
\* get_item_by_id up to the suspension in execute().
get_item_by_id(tbl, t, id) ==
    [s |-> [t EXCEPT !.pc = "execute", !.op = "read_item_by_id", !.id = id,
                     !.calls = Append(@, "execute")],
     durable |-> tbl]

\* From the completion of execute() to the return.
get_item_by_id_read(tbl, t) ==
    LET r == read_item_by_id(View(tbl, t), t.id)
    IN  [s |-> [t EXCEPT !.pc = "returned", !.err = r.err, !.ret = r.ret],
         durable |-> tbl]

\* get_all_items up to the suspension in execute().
get_all_items(tbl, t, kwargs) ==
    [s |-> [t EXCEPT !.pc = "execute", !.op = "read_items_by_attrs",
                     !.kwargs = kwargs, !.calls = Append(@, "execute")],
     durable |-> tbl]

\* From the completion of execute() to the return.
get_all_items_read(tbl, t) ==
    [s |-> [t EXCEPT !.pc = "returned",
                     !.rets = read_items_by_attrs(View(tbl, t), t.kwargs)],
     durable |-> tbl]

\* create_item up to the suspension in flush().
create_item(tbl, t, data, newid, t1, t2) ==
    [s |-> [session_flush(session_add(t, data), newid, t1, t2)
               EXCEPT !.pc = "flush", !.op = "create_item", !.data = data],
     durable |-> tbl]

\* From the completion of flush() to the suspension in execute().
create_item_flushed(tbl, t) ==
    [s |-> [session_insert(t) EXCEPT !.pc = "reread", !.id = Val(t.new[1].id),
                                     !.calls = Append(@, "execute")],
     durable |-> tbl]

\* From the completion of execute() to the return.
create_item_read(tbl, t) ==
    LET r == read_item_by_id(View(tbl, t), t.id)
    IN  [s |-> [t EXCEPT !.pc = "returned", !.err = r.err, !.ret = r.ret],
         durable |-> tbl]

\* update_item up to the suspension in execute(): the clock is read here.
update_item(tbl, t, id, data, now) ==
    [s |-> [t EXCEPT !.pc = "lookup", !.op = "update_item", !.id = id,
                     !.data = data, !.now = now,
                     !.calls = Append(@, "execute")],
     durable |-> tbl]

\* A lookup whose failure is ignored.
update_item_unchecked(tbl, t) ==
    LET r == read_item_by_id(View(tbl, t), t.id)
        obj == Patch(r.ret, PartialUpdate(t.data, t.now))
    IN  [s |-> [t EXCEPT !.pc = "returned",
                         !.loaded = r.ret, !.cur = obj, !.ret = obj],
         durable |-> tbl]

\* An update that commits what it has changed.
update_item_commits(tbl, t) ==
    LET r == read_item_by_id(View(tbl, t), t.id)
        obj == Patch(r.ret, PartialUpdate(t.data, t.now))
        t1 == [t EXCEPT !.pc = "returned", !.err = r.err,
                        !.loaded = r.ret, !.cur = obj, !.ret = obj]
    IN  IF r.err # ""
        THEN [s |-> [t EXCEPT !.pc = "returned", !.err = r.err],
              durable |-> tbl]
        ELSE [s |-> t1, durable |-> session_commit(tbl, t1)]

\* From the completion of execute() to the return: the object is patched.
update_item_lookup(tbl, t) ==
    LET r == read_item_by_id(View(tbl, t), t.id)
        obj == Patch(r.ret, PartialUpdate(t.data, t.now))
    IN  IF r.err # ""
        THEN [s |-> [t EXCEPT !.pc = "returned", !.err = r.err],
              durable |-> tbl]
        ELSE [s |-> [t EXCEPT !.pc = "returned",
                              !.loaded = r.ret, !.cur = obj, !.ret = obj],
              durable |-> tbl]

(***************************************************************************)
(* Inputs.                                                                 *)
(***************************************************************************)
\* Candidates for creation: the server-assigned columns are not set.
Candidates ==
    {[NoRow EXCEPT !.name = Some(""), !.count = Some(1)],
     [NoRow EXCEPT !.name = Some("x"), !.count = Some(0)]}

\* Update payloads that set client columns only.
ClientPayloads ==
    {[NoRow EXCEPT !.name = Some("x"), !.count = Some(0)],
     [NoRow EXCEPT !.name = Some("")],
     [NoRow EXCEPT !.count = Some(1)]}

\* Update payloads that set a server-assigned column.
ServerPayloads ==
    {[NoRow EXCEPT !.id = Some(i)] : i \in Ids}
    \cup {[NoRow EXCEPT !.created_at = Some(MaxClock)],
          [NoRow EXCEPT !.updated_at = Some(0), !.name = Some("x")]}

Payloads == ClientPayloads \cup ServerPayloads

Filters ==
    {NoKwargs}
    \cup {[a \in {"name"} |-> n] : n \in OptNames}
    \cup {[a \in {"count"} |-> c] : c \in OptCounts}
    \cup {[a \in {"name", "count"} |-> IF a = "name" THEN n ELSE c] :
            n \in OptNames, c \in OptCounts}

\* The ids of the rows a session has generated and not committed.
Pending(t) == UsedIds(t.new) \cup UsedIds(t.ins)

\* The ids a request in flight names: the one it looks up, the one in its
\* payload.
Named(t) == (Ids \cap {t.id}) \cup t.data.id

\* uuid4() collides with no id that exists anywhere.
FreshIds ==
    Ids \ (UsedIds(durable)
           \cup UNION {Pending(sess[s]) \cup Named(sess[s]) : s \in Sessions})

\* A client cannot name an id that uuid4() produced and nobody has seen.
Nameable(s, id, data) ==
    \A o \in Sessions \ {s} : ({id} \cup data.id) \cap Pending(sess[o]) = {}

\* Rows that exist or are about to.
Population ==
    Len(durable) + Len(sess[1].new) + Len(sess[1].ins)
                 + Len(sess[2].new) + Len(sess[2].ins)

(***************************************************************************)
(* The system.                                                             *)
(***************************************************************************)
Init ==
    /\ clock = 0
    /\ durable = <<>>
    /\ sess = [s \in Sessions |-> NoSession]
    /\ started = 0

\* A request arrives and is given a session that no request is using.
Free(s) ==
    /\ started < MaxRequests
    /\ sess[s].pc = "idle"

Leaves(s, w) ==
    /\ sess' = [sess EXCEPT ![s] = w.s]
    /\ durable' = w.durable
    /\ started' = IF sess[s].pc = "idle" THEN started + 1 ELSE started

GetItemById(s) ==
    /\ Free(s)
    /\ \E id \in Ids :
         /\ Nameable(s, id, NoRow)
         /\ Leaves(s, get_item_by_id(durable, sess[s], id))
    /\ UNCHANGED clock

GetItemByIdRead(s) ==
    /\ sess[s].pc = "execute"
    /\ sess[s].op = "read_item_by_id"
    /\ Leaves(s, get_item_by_id_read(durable, sess[s]))
    /\ UNCHANGED clock

GetAllItems(s) ==
    /\ Free(s)
    /\ \E kwargs \in Filters : Leaves(s, get_all_items(durable, sess[s], kwargs))
    /\ UNCHANGED clock

GetAllItemsRead(s) ==
    /\ sess[s].pc = "execute"
    /\ sess[s].op = "read_items_by_attrs"
    /\ Leaves(s, get_all_items_read(durable, sess[s]))
    /\ UNCHANGED clock

CreateItem(s) ==
    /\ Free(s)
    /\ Population < MaxRows
    /\ \E data \in Candidates, newid \in FreshIds :
         \E t1 \in clock..MaxClock :
           \E t2 \in t1..MaxClock :
             /\ Leaves(s, create_item(durable, sess[s], data, newid, t1, t2))
             /\ clock' = t2

CreateItemFlushed(s) ==
    /\ sess[s].pc = "flush"
    /\ Leaves(s, create_item_flushed(durable, sess[s]))
    /\ UNCHANGED clock

CreateItemRead(s) ==
    /\ sess[s].pc = "reread"
    /\ Leaves(s, create_item_read(durable, sess[s]))
    /\ UNCHANGED clock

UpdateItem(s) ==
    /\ Free(s)
    /\ \E id \in Ids, data \in Payloads :
         \E now \in clock..MaxClock :
           /\ Nameable(s, id, data)
           /\ Leaves(s, update_item(durable, sess[s], id, data, now))
           /\ clock' = now

UpdateItemLookup(s) ==
    /\ sess[s].pc = "lookup"
    /\ Leaves(s, update_item_lookup(durable, sess[s]))
    /\ UNCHANGED clock

\* The caller of a handler that returned normally commits the session.
Commit(s) ==
    /\ sess[s].pc = "returned"
    /\ sess[s].err = ""
    /\ durable' = session_commit(durable, sess[s])
    /\ sess' = [sess EXCEPT ![s] = NoSession]
    /\ UNCHANGED <<clock, started>>

\* The caller rolls the session back.
Rollback(s) ==
    /\ sess[s].pc = "returned"
    /\ durable' = session_rollback(durable, sess[s])
    /\ sess' = [sess EXCEPT ![s] = NoSession]
    /\ UNCHANGED <<clock, started>>

Next ==
    \E s \in Sessions :
        \/ GetItemById(s)
        \/ GetItemByIdRead(s)
        \/ GetAllItems(s)
        \/ GetAllItemsRead(s)
        \/ CreateItem(s)
        \/ CreateItemFlushed(s)
        \/ CreateItemRead(s)
        \/ UpdateItem(s)
        \/ UpdateItemLookup(s)
        \/ Commit(s)
        \/ Rollback(s)

Spec == Init /\ [][Next]_vars

(***************************************************************************)
(* The read operations on any content of the table, with NULLs.  The id is *)
(* the primary key: the rows of a table have distinct ids.                 *)
(***************************************************************************)
QueryRows ==
    {[id |-> Some(i), created_at |-> Some(0), updated_at |-> Some(0),
      name |-> n, count |-> c] : i \in Ids, n \in OptNames, c \in OptCounts}

QueryTables == UNION {[1..n -> QueryRows] : n \in 0..MaxRows}

KeyedTables == {tbl \in QueryTables : Cardinality(UsedIds(tbl)) = Len(tbl)}

InitQuery ==
    /\ clock = 0
    /\ durable \in KeyedTables
    /\ sess = [s \in Sessions |-> NoSession]
    /\ started = 0

NextQuery ==
    \E s \in Sessions :
        \/ GetItemById(s)
        \/ GetItemByIdRead(s)
        \/ GetAllItems(s)
        \/ GetAllItemsRead(s)
        \/ Commit(s)
        \/ Rollback(s)

SpecQuery == InitQuery /\ [][NextQuery]_vars

(***************************************************************************)
(* The read operations on a table whose primary key is not enforced: an id *)
(* may be held by several rows.                                            *)
(***************************************************************************)
InitUnkeyed ==
    /\ clock = 0
    /\ durable \in QueryTables
    /\ sess = [s \in Sessions |-> NoSession]
    /\ started = 0

NextUnkeyed ==
    \E s \in Sessions :
        \/ GetItemById(s)
        \/ GetItemByIdRead(s)
        \/ GetAllItems(s)
        \/ GetAllItemsRead(s)
        \/ Commit(s)
        \/ Rollback(s)

SpecUnkeyed == InitUnkeyed /\ [][NextUnkeyed]_vars

(***************************************************************************)
(* Properties.                                                             *)
(***************************************************************************)
Called(s, op) == sess[s].pc = "returned" /\ sess[s].op = op
Ok(s, op) == Called(s, op) /\ sess[s].err = ""

\* The falsy values of each column's type.
FalsyValues ==
    [id |-> {None}, created_at |-> {None}, updated_at |-> {None},
     name |-> {None, Some("")}, count |-> {None, Some(0)}]

\* C1: a successful update_item sets on the record it looked up exactly the
\* payload attributes whose value is truthy, leaves the attributes whose
\* payload value is falsy (None, 0, empty string) at the value the record was
\* loaded with, and sets updated_at to the time it read from the clock,
\* whatever the payload holds; the returned record is the updated one.
C1_TruthyPartialUpdate ==
    \A s \in Sessions :
        Ok(s, "update_item") =>
            /\ sess[s].loaded.id = Some(sess[s].id)
            /\ \A a \in Attrs \ {"updated_at"} :
                  sess[s].cur[a] = IF sess[s].data[a] \in FalsyValues[a]
                                   THEN sess[s].loaded[a]
                                   ELSE sess[s].data[a]
            /\ sess[s].cur.updated_at = Some(sess[s].now)
            /\ sess[s].now <= clock
            /\ sess[s].ret = sess[s].cur

\* An update with a truthy name and a zero count, on a record with another
\* name and a non-zero count.
C1_Witness ==
    \E s \in Sessions :
        /\ Ok(s, "update_item")
        /\ sess[s].data.name = Some("x")
        /\ sess[s].data.count = Some(0)
        /\ sess[s].loaded.name # Some("x")
        /\ sess[s].loaded.count = Some(1)

\* An update whose payload has no truthy attribute still refreshes updated_at.
C1_WitnessEmpty ==
    \E s \in Sessions :
        /\ Ok(s, "update_item")
        /\ sess[s].data = [NoRow EXCEPT !.name = Some("")]
        /\ sess[s].cur.updated_at # sess[s].loaded.updated_at

\* The equality constraints a row must meet: one per keyword that is not None.
Matches(row, kwargs) ==
    \A a \in DOMAIN kwargs : kwargs[a] = None \/ row[a] = kwargs[a]

\* C2: on every table (its rows have distinct ids, the id being the primary
\* key) read_items_by_attrs returns exactly the records that equal the given
\* value on every keyword whose value is not None; a None-valued keyword is
\* not applied, and with no keyword or only None-valued ones the result is the
\* whole table.
C2_FilterByAttrs ==
    \A s \in Sessions :
        Called(s, "read_items_by_attrs") =>
            /\ sess[s].err = ""
            /\ sess[s].rets =
                  SelectSeq(durable, LAMBDA row : Matches(row, sess[s].kwargs))
            /\ (\A a \in DOMAIN sess[s].kwargs : sess[s].kwargs[a] = None)
                  => sess[s].rets = durable

\* A None-valued name keyword beside a count filter that drops a row: the
\* result holds a record whose name is not NULL.
C2_Witness ==
    \E s \in Sessions :
        /\ Called(s, "read_items_by_attrs")
        /\ sess[s].kwargs = [name |-> None, count |-> Some(1)]
        /\ Len(sess[s].rets) = 1
        /\ Len(durable) = 2
        /\ sess[s].rets[1].name # None

\* C3: read_item_by_id returns the record when exactly one stored record has
\* the id, fails with NoResultFound when none has it and with
\* MultipleResultsFound when several have it; a returned record has the
\* requested id.
C3_ReadById ==
    \A s \in Sessions :
        Called(s, "read_item_by_id") =>
            LET n == Cardinality(Holders(durable, sess[s].id))
            IN  /\ n = 0 => sess[s].err = "NoResultFound"
                /\ n > 1 => sess[s].err = "MultipleResultsFound"
                /\ n = 1 => /\ sess[s].err = ""
                            /\ \E i \in Holders(durable, sess[s].id) :
                                  sess[s].ret = durable[i]
                /\ sess[s].err = "" => sess[s].ret.id = Some(sess[s].id)

\* Two rows hold the requested id.
C3_Witness ==
    \E s \in Sessions :
        /\ Called(s, "read_item_by_id")
        /\ Cardinality(Holders(durable, sess[s].id)) = 2
        /\ sess[s].err = "MultipleResultsFound"

\* C4: create_item calls add, then flush, then reads the record back by its
\* id, and succeeds; the returned record, and the result of a following
\* read_item_by_id on the returned id, equal the candidate in every attribute
\* that is not server-assigned.
C4_CreateThenRead ==
    \A s \in Sessions :
        Called(s, "create_item") =>
            /\ sess[s].err = ""
            /\ sess[s].calls = <<"add", "flush", "execute">>
            /\ \A a \in ClientAttrs : sess[s].ret[a] = sess[s].data[a]
            /\ LET again == read_item_by_id(View(durable, sess[s]),
                                            Val(sess[s].ret.id))
               IN  /\ again.err = ""
                   /\ again.ret = sess[s].ret
                   /\ \A a \in ClientAttrs : again.ret[a] = sess[s].data[a]

\* A second record is created, with a name and a zero count, while another
\* request is in progress.
C4_Witness ==
    \E s \in Sessions :
        /\ Ok(s, "create_item")
        /\ Len(durable) = 1
        /\ sess[s].data.name = Some("x")
        /\ sess[s].data.count = Some(0)
        /\ \E o \in Sessions : sess[o].pc = "lookup"

\* C5: right after create_item returns, created_at = updated_at.
C5_CreatedEqualsUpdated ==
    \A s \in Sessions :
        Ok(s, "create_item") => sess[s].ret.created_at = sess[s].ret.updated_at

Ordered(row) == Val(row.created_at) <= Val(row.updated_at)

\* C6: every stored record, committed or held by a session, has
\* created_at <= updated_at.
C6_CreatedBeforeUpdated ==
    /\ \A i \in 1..Len(durable) : Ordered(durable[i])
    /\ \A s \in Sessions :
          /\ \A i \in 1..Len(sess[s].ins) : Ordered(sess[s].ins[i])
          /\ Ok(s, "update_item") => Ordered(sess[s].cur)

\* C7: update_item leaves the id and the created_at of the record unchanged,
\* whatever the payload holds.
C7_IdAndCreatedAtImmutable ==
    \A s \in Sessions :
        Ok(s, "update_item") =>
            /\ sess[s].cur.id = sess[s].loaded.id
            /\ sess[s].cur.created_at = sess[s].loaded.created_at

\* C8: when the lookup of update_item executes and no stored record has the
\* id, update_item fails with the error read_item_by_id gives for it,
\* NoResultFound, and no record changes: not in the committed table, not in
\* the session, not in another session.
C8_UpdateMissing ==
    [][\A s \in Sessions :
          (/\ sess[s].pc = "lookup"
           /\ sess'[s].pc = "returned"
           /\ Holders(View(durable, sess[s]), sess[s].id) = {}) =>
              /\ sess'[s].err = "NoResultFound"
              /\ sess'[s].err = read_item_by_id(View(durable, sess[s]), sess[s].id).err
              /\ durable' = durable
              /\ sess'[s].ins = sess[s].ins
              /\ sess'[s].cur = NoRow
              /\ sess'[s].ret = NoRow
              /\ \A o \in Sessions \ {s} : sess'[o] = sess[o]]_vars

\* An update with a truthy name for an id the table does not hold, while it
\* holds a record, at a later time than the record's.
C8_Witness ==
    \E s \in Sessions :
        /\ Called(s, "update_item")
        /\ sess[s].err = "NoResultFound"
        /\ Holders(durable, sess[s].id) = {}
        /\ Len(durable) >= 1
        /\ sess[s].data.name = Some("x")
        /\ sess[s].now > Val(durable[1].updated_at)

\* C9: a successful update_item returns the record with an updated_at that is
\* strictly later than the updated_at the record had.
C9_StrictlyLater ==
    \A s \in Sessions :
        Ok(s, "update_item") =>
            Val(sess[s].ret.updated_at) > Val(sess[s].loaded.updated_at)

\* A successful update_item never returns an updated_at earlier than the one
\* the record had.
C9_NotEarlier ==
    \A s \in Sessions :
        Ok(s, "update_item") =>
            Val(sess[s].ret.updated_at) >= Val(sess[s].loaded.updated_at)

\* C10: update_item changes the session's record only: no stretch of it
\* changes the committed table or inserts a row, it calls neither add nor
\* flush nor commit, and a rollback of the session after it leaves the
\* committed table as it is.
C10_UpdateNotDurable ==
    [][\A s \in Sessions :
          /\ (/\ sess'[s].op = "update_item"
              /\ sess'[s] # sess[s]) =>
                 /\ durable' = durable
                 /\ sess'[s].ins = <<>>
                 /\ sess'[s].new = <<>>
                 /\ \A k \in 1..Len(sess'[s].calls) :
                       sess'[s].calls[k] \notin {"add", "flush", "commit"}
          /\ (Called(s, "update_item") /\ Rollback(s)) => durable' = durable]_vars

\* An update has changed the record in its session; the committed record is
\* as it was loaded.
C10_Witness ==
    \E s \in Sessions :
        /\ Ok(s, "update_item")
        /\ sess[s].ret.name # sess[s].loaded.name
        /\ \E i \in Holders(durable, sess[s].id) : durable[i] = sess[s].loaded

(***************************************************************************)
(* Interleavings of two requests.                                          *)
(***************************************************************************)
\* An update returns an updated_at earlier than the one it loaded.
UpdatedAtRegresses ==
    \E s \in Sessions :
        /\ Ok(s, "update_item")
        /\ Val(sess[s].ret.updated_at) < Val(sess[s].loaded.updated_at)

\* On a table that holds an id in two different rows, a filtered read returns
\* the first of them twice.
RepeatedObject ==
    \E s \in Sessions :
        /\ Called(s, "read_items_by_attrs")
        /\ Len(durable) = 2
        /\ durable[1] # durable[2]
        /\ sess[s].rets = <<durable[1], durable[1]>>

\* The committed rows are not in the order of their creation times.
CommittedAgainstClock ==
    /\ Len(durable) = 2
    /\ Val(durable[1].created_at) > Val(durable[2].created_at)

====
